---------------------------- MODULE Spec2Model ----------------------------
(***************************************************************************)
(* A model of the papertrail-rag orchestration core:                       *)
(*   - VectorStore      (src/src/vectorstore/vectorstore.py)               *)
(*   - RAGNodes         (src/src/nodes/nodes.py, src/src/nodes/reactnode.py)*)
(*   - GraphBuilder     (src/src/graph_builder/graph_builder.py)           *)
(*   - DocumentProcessor(src/src/document_ingestion/document_processor.py) *)
(* Each component has its own specification (SpecVS, SpecNodes, SpecFlow,  *)
(* SpecLoad) over the shared variables; Spec interleaves all of them.      *)
(***************************************************************************)
EXTENDS Integers, Sequences, FiniteSets, TLC

\* ------------------------------------------------------------------------
\* Bounds of the model
\* ------------------------------------------------------------------------
NumDocs == 2
\* documents are 1..NumDocs: a document's number is also its embedding

NumQueries == 2
\* queries are 1..NumQueries: a query's number is also its embedding

MaxDocs == 2
\* longest document list passed to create_retriever or held by a state

MaxK == 1
\* largest explicit k argument besides the default

Docs == 1..NumDocs

Queries == 1..NumQueries

RECURSIVE SeqsUpTo(_, _)
SeqsUpTo(S, n) ==
    IF n = 0 THEN {<<>>}
    ELSE LET shorter == SeqsUpTo(S, n - 1)
         IN  shorter \cup {Append(s, x) : s \in {t \in shorter : Len(t) = n - 1}, x \in S}

DocLists == SeqsUpTo(Docs, MaxDocs)

\* Python's None, where the other values are objects (records)
None == [none |-> TRUE]

\* no exception raised: the call returned
NoExc == "returned"

Min(a, b) == IF a < b THEN a ELSE b

VARIABLES
    \* VectorStore instance
    vectorstore,    \* self.vectorstore: None or [docs]: the indexed documents, in insertion order
    retriever,      \* self.retriever: None or [store, k] (the index it searches, search_kwargs["k"])
    vsLast,         \* the last VectorStore call: its arguments and what it did
    vsCreated,      \* history: None or [documents, k, replaced] of the last create_retriever
                    \* that returned; replaced: it replaced an earlier index
    vsFailed        \* history: some create_retriever call has raised

vsVars == <<vectorstore, retriever, vsLast, vsCreated, vsFailed>>

VARIABLES
    \* RAGNodes instances (nodes.py: baseline; reactnode.py: agentic)
    ndIn,           \* the RAGState object handed to the node function, as it is now
    ndAgent,        \* the agentic instance's self._agent: None or the built agent
    ndLast          \* the last node call: its arguments and what it did

ndVars == <<ndIn, ndAgent, ndLast>>

VARIABLES
    \* GraphBuilder instance
    nodes,          \* self.nodes
    graph,          \* self.graph: None or the compiled graph
    flCalls         \* history: the build() and run(query) calls so far, with their outcomes

flVars == <<nodes, graph, flCalls>>

VARIABLES
    \* one DocumentProcessor.load_documents(sources) call
    ldSources,      \* the sources argument
    ldPc,           \* "called", "loop", "returned" or "raised"
    ldI,            \* the position of the for loop in sources
    ldDocs,         \* the local docs
    ldIO,           \* history: the positions of the sources a loader did I/O for, in order
    ldRet,          \* None or [docs]: what the caller received
    ldExc,          \* the exception the call raised, NoExc if none
    ldRoutes        \* history: for each source handled so far, where the loop sent it

ldVars == <<ldSources, ldPc, ldI, ldDocs, ldIO, ldRet, ldExc, ldRoutes>>

VARIABLES
    \* one call of the agent's retriever tool (reactnode.py)
    tlDocs,         \* what self.retriever.invoke(query) returns
    tlOut           \* None or the tool's output

tlVars == <<tlDocs, tlOut>>

VARIABLES
    \* one DocumentProcessor.split_documents(documents) call
    spDocs,         \* the documents argument: a list of texts
    spSize,         \* the instance's chunk_size
    spOverlap,      \* the instance's chunk_overlap
    spOut           \* None or [chunks]: what the call returned

spVars == <<spDocs, spSize, spOverlap, spOut>>

VARIABLES
    \* one agentic RAGNodes instance under repeated generate_answer calls
    agHistory       \* history: one record per generate_answer call

agVars == <<agHistory>>

vars == <<vsVars, ndVars, flVars, ldVars, tlVars, spVars, agVars>>

\* ------------------------------------------------------------------------
\* VectorStore
\* ------------------------------------------------------------------------
DefaultK == 4

KArgs == (1..MaxK) \cup {DefaultK}

ErrEmptyDocuments == "ValueError: Cannot create vector store with an empty document list."

ErrNotInitialized == "ValueError: Vector store is not initialized. Call 'create_retriever' first."

ErrEmbedding == "EmbeddingError"

\* The embedding function (external): text -> vector, here a point on a line.
Embed(text) == text

\* The index's metric: squared L2 distance, smaller is more similar.
Distance(q, d) == (Embed(q) - Embed(d)) * (Embed(q) - Embed(d))

\* Rank of position i of the index for query q: 1 = closest, ties by insertion order.
RankOf(store, q, i) ==
    1 + Cardinality({j \in 1..Len(store) :
                        \/ Distance(q, store[j]) < Distance(q, store[i])
                        \/ (Distance(q, store[j]) = Distance(q, store[i]) /\ j < i)})

\* The index positions of the top-k search, best first.
TopKPositions(store, q, k) ==
    [r \in 1..Min(k, Len(store)) |-> CHOOSE i \in 1..Len(store) : RankOf(store, q, i) = r]

\* retriever.get_relevant_documents(query): the top-k documents, best first.
get_relevant_documents(rt, query) ==
    LET pos == TopKPositions(rt.store, query, rt.k)
    IN  [r \in 1..Len(pos) |-> rt.store[pos[r]]]

\* VectorStore.__init__
VectorStoreInit == [vectorstore |-> None, retriever |-> None]

\* A create_retriever that attaches the retriever before the index is built, so
\* that an embedding failure leaves a retriever behind.
create_retriever_attach_first(self, documents, k, embedOK) ==
    IF documents = <<>>
    THEN [self |-> self, exc |-> ErrEmptyDocuments, embedded |-> FALSE]
    ELSE LET made == [vectorstore |-> [docs |-> documents],
                      retriever |-> [store |-> documents, k |-> k]]
         IN  [self |-> made, exc |-> IF embedOK THEN NoExc ELSE ErrEmbedding,
              embedded |-> TRUE]

\* A create_retriever that drops the old index before it validates its input.
create_retriever_reset_first(self, documents, k, embedOK) ==
    IF documents = <<>>
    THEN [self |-> [vectorstore |-> None, retriever |-> None],
          exc |-> ErrEmptyDocuments, embedded |-> FALSE]
    ELSE IF ~embedOK
    THEN [self |-> self, exc |-> ErrEmbedding, embedded |-> TRUE]
    ELSE [self |-> [vectorstore |-> [docs |-> documents],
                    retriever |-> [store |-> documents, k |-> k]],
          exc |-> NoExc, embedded |-> TRUE]

\* VectorStore.create_retriever(documents, k); embedOK: the embedding call succeeds.
\* Returns the instance after the call, the exception raised (NoExc: returned) and
\* whether the embedding function was called.
create_retriever(self, documents, k, embedOK) ==
    IF documents = <<>>
    THEN [self |-> self, exc |-> ErrEmptyDocuments, embedded |-> FALSE]
    ELSE IF ~embedOK
    THEN [self |-> self, exc |-> ErrEmbedding, embedded |-> TRUE]
    ELSE [self |-> [vectorstore |-> [docs |-> documents],
                    retriever |-> [store |-> documents, k |-> k]],
          exc |-> NoExc, embedded |-> TRUE]

\* VectorStore.get_retriever()
get_retriever(self) ==
    IF self.retriever = None
    THEN [self |-> self, exc |-> ErrNotInitialized, ret |-> None]
    ELSE [self |-> self, exc |-> NoExc, ret |-> self.retriever]

\* A retrieve that searches with the remembered k and ignores its own argument.
retrieve_remembered_k(self, query, k, embedOK) ==
    IF self.retriever = None
    THEN [self |-> self, exc |-> ErrNotInitialized, ret |-> None, embedded |-> FALSE]
    ELSE IF embedOK
         THEN [self |-> self, exc |-> NoExc,
               ret |-> [docs |-> get_relevant_documents(self.retriever, query)],
               embedded |-> TRUE]
         ELSE [self |-> self, exc |-> ErrEmbedding, ret |-> None, embedded |-> TRUE]

\* VectorStore.retrieve(query, k); embedOK: embedding the query succeeds.
retrieve(self, query, k, embedOK) ==
    IF self.retriever = None
    THEN [self |-> self, exc |-> ErrNotInitialized, ret |-> None, embedded |-> FALSE]
    ELSE LET rt == [self.retriever EXCEPT !.k = k]
             after == [self EXCEPT !.retriever = rt]
         IN  IF embedOK
             THEN [self |-> after, exc |-> NoExc,
                   ret |-> [docs |-> get_relevant_documents(rt, query)], embedded |-> TRUE]
             ELSE [self |-> after, exc |-> ErrEmbedding, ret |-> None, embedded |-> TRUE]

VSSelf == [vectorstore |-> vectorstore, retriever |-> retriever]

NoCall == [op |-> "none"]

CreateRetriever(documents, k, embedOK) ==
    LET r == create_retriever(VSSelf, documents, k, embedOK)
    IN  /\ vectorstore' = r.self.vectorstore
        /\ retriever' = r.self.retriever
        /\ vsLast' = [op |-> "create_retriever", empty |-> (documents = <<>>),
                      exc |-> r.exc, embedded |-> r.embedded]
        /\ vsCreated' = IF r.exc = NoExc
                        THEN [documents |-> documents, k |-> k,
                              replaced |-> (vsCreated # None)]
                        ELSE vsCreated
        /\ vsFailed' = (vsFailed \/ r.exc # NoExc)
        /\ UNCHANGED <<ndVars, flVars, ldVars, tlVars, spVars, agVars>>

GetRetriever ==
    LET r == get_retriever(VSSelf)
    IN  /\ vectorstore' = r.self.vectorstore
        /\ retriever' = r.self.retriever
        /\ vsLast' = [op |-> "get_retriever", exc |-> r.exc, ret |-> r.ret]
        /\ UNCHANGED <<vsCreated, vsFailed, ndVars, flVars, ldVars, tlVars, spVars, agVars>>

Retrieve(query, k, embedOK) ==
    LET r == retrieve(VSSelf, query, k, embedOK)
    IN  /\ vectorstore' = r.self.vectorstore
        /\ retriever' = r.self.retriever
        /\ vsLast' = [op |-> "retrieve", query |-> query, k |-> k,
                      exc |-> r.exc, ret |-> r.ret, embedded |-> r.embedded]
        /\ UNCHANGED <<vsCreated, vsFailed, ndVars, flVars, ldVars, tlVars, spVars, agVars>>

InitVS ==
    /\ vectorstore = VectorStoreInit.vectorstore
    /\ retriever = VectorStoreInit.retriever
    /\ vsLast = NoCall
    /\ vsCreated = None
    /\ vsFailed = FALSE

NextVS ==
    \/ \E documents \in DocLists, k \in KArgs, embedOK \in BOOLEAN :
          CreateRetriever(documents, k, embedOK)
    \/ GetRetriever
    \/ \E query \in Queries, k \in KArgs, embedOK \in BOOLEAN :
          Retrieve(query, k, embedOK)

\* ------------------------------------------------------------------------
\* RAGState and RAGNodes
\* ------------------------------------------------------------------------
\* RAGState(query=..., retrieved_docs=..., response=...)
RAGState(query, retrieved_docs, response) ==
    [query |-> query, retrieved_docs |-> retrieved_docs, response |-> response]

\* the field defaults of RAGState
DefaultRetrievedDocs == <<>>

DefaultResponse == ""

Answer == "answer"

OldResponse == "old"

FallbackResponse == "Could not generate response."

Responses == {DefaultResponse, OldResponse}

RAGStates == {RAGState(q, d, r) : q \in Queries, d \in DocLists, r \in Responses}

ErrRetriever == "RetrieverError"

ErrLLM == "LLMError"

ErrAgentBuild == "AgentBuildError"

ErrNoDocumentsAttr == "AttributeError: 'RAGState' object has no attribute 'documents'"

\* what self.retriever.invoke(query) can do: return a document list, or raise
RetrieverOutcomes ==
    {[exc |-> NoExc, docs |-> d] : d \in DocLists} \cup {[exc |-> ErrRetriever, docs |-> <<>>]}

\* what self.llm.invoke(prompt) can do: return a message with a content, or raise
LLMOutcomes ==
    {[exc |-> NoExc, content |-> c] : c \in {"", Answer}} \cup {[exc |-> ErrLLM, content |-> ""]}

\* what self._agent.invoke(...) can do: raise, or return a result with no
\* messages, or one whose last message has no content, an empty or a non-empty one
AgentOutcomes ==
    {[exc |-> NoExc, messages |-> m] :
        m \in {"none", "last_without_content", "last_empty_content", "last_with_content"}}
    \cup {[exc |-> ErrLLM, messages |-> "none"]}

\* nodes.py RAGNodes.retrieve_docs: [exc, out, input]; input is the state object
\* after the call.
nodes_retrieve_docs(state, retr) ==
    IF retr.exc # NoExc
    THEN [exc |-> retr.exc, out |-> None, input |-> state]
    ELSE [exc |-> NoExc,
          out |-> RAGState(state.query, retr.docs, DefaultResponse),
          input |-> state]

\* nodes.py RAGNodes.generate_answer: the model is invoked, then state.documents
\* is read, an attribute RAGState does not have.
nodes_generate_answer(state, llm) ==
    IF llm.exc # NoExc
    THEN [exc |-> llm.exc, out |-> None, input |-> state]
    ELSE [exc |-> ErrNoDocumentsAttr, out |-> None, input |-> state]

\* reactnode.py RAGNodes.retrieve_docs
react_retrieve_docs(state, retr) ==
    IF retr.exc # NoExc
    THEN [exc |-> retr.exc, out |-> None, input |-> state]
    ELSE [exc |-> NoExc,
          out |-> RAGState(state.query, retr.docs, state.response),
          input |-> state]

\* reactnode.py RAGNodes._build_tools
BuildTools == <<"retriever", "wikipedia">>

\* reactnode.py RAGNodes._build_agent: the agent it assigns to self._agent
BuildAgent == [tools |-> BuildTools, system_prompt |-> "You are a helpful RAG agent."]

\* the answer read off the agent's result (None: no answer)
AgentAnswer(res) ==
    CASE res.messages = "none" -> None
      [] res.messages = "last_without_content" -> None
      [] res.messages = "last_empty_content" -> [content |-> ""]
      [] OTHER -> [content |-> Answer]

\* A fallback that only replaces a missing answer, not an empty one.
AnswerOrFallback_missing_only(answer) ==
    IF answer = None THEN FallbackResponse ELSE answer.content

\* answer or "Could not generate response."
AnswerOrFallback(answer) ==
    IF answer = None THEN FallbackResponse
    ELSE IF answer.content = "" THEN FallbackResponse
    ELSE answer.content

\* A generate_answer that builds its agent on every call.
react_generate_answer_rebuild(agent, state, buildOK, res) ==
    IF ~buildOK
    THEN [agent |-> agent, exc |-> ErrAgentBuild, out |-> None, input |-> state,
          built |-> FALSE, invoked |-> None]
    ELSE IF res.exc # NoExc
    THEN [agent |-> BuildAgent, exc |-> res.exc, out |-> None, input |-> state,
          built |-> TRUE, invoked |-> BuildAgent]
    ELSE [agent |-> BuildAgent, exc |-> NoExc,
          out |-> RAGState(state.query, state.retrieved_docs,
                           AnswerOrFallback(AgentAnswer(res))),
          input |-> state, built |-> TRUE, invoked |-> BuildAgent]

\* reactnode.py RAGNodes.generate_answer on an instance whose _agent is agent;
\* buildOK: _build_agent succeeds when it is called. [agent, exc, out, input].
\* built: this call's _build_agent assigned self._agent; invoked: the agent
\* this call invoked, None if it invoked none.
react_generate_answer(agent, state, buildOK, res) ==
    IF agent = None /\ ~buildOK
    THEN [agent |-> agent, exc |-> ErrAgentBuild, out |-> None, input |-> state,
          built |-> FALSE, invoked |-> None]
    ELSE LET built == IF agent = None THEN BuildAgent ELSE agent
         IN  IF res.exc # NoExc
             THEN [agent |-> built, exc |-> res.exc, out |-> None, input |-> state,
                   built |-> (agent = None), invoked |-> built]
             ELSE [agent |-> built, exc |-> NoExc,
                   out |-> RAGState(state.query, state.retrieved_docs,
                                    AnswerOrFallback(AgentAnswer(res))),
                   input |-> state,
                   built |-> (agent = None), invoked |-> built]

\* the documents the tool's retriever can return: with a title, with a source
\* only, with neither ("" stands for a missing or empty entry)
ToolDocs ==
    {[metadata |-> [title |-> "T", source |-> "s"], page_content |-> "a"],
     [metadata |-> [title |-> "", source |-> "s"], page_content |-> "b"],
     [metadata |-> [title |-> "", source |-> ""], page_content |-> "c"]}

MaxToolDocs == 9
\* longest result list of the tool's retriever

ToolDocLists == SeqsUpTo(ToolDocs, MaxToolDocs)

ToolMaxDocs == 8

NoDocumentsFound == "No documents found."

\* meta.get("title") or meta.get("source") or f"doc_{i}"
TitleOf(meta, i) ==
    IF meta.title # "" THEN <<meta.title>>
    ELSE IF meta.source # "" THEN <<meta.source>>
    ELSE <<"doc_", i>>

\* f"[{i}] {title}\n{d.page_content}"
Block(i, d) == [i |-> i, title |-> TitleOf(d.metadata, i), page_content |-> d.page_content]

\* A tool that formats every retrieved document.
retriever_tool_fn_all_docs(docs) ==
    IF docs = <<>> THEN [text |-> NoDocumentsFound]
    ELSE [blocks |-> [i \in 1..Len(docs) |-> Block(i, docs[i])]]

\* reactnode.py retriever_tool_fn, docs being what the retriever returned: the
\* sentinel text, or the blocks that are joined by a blank line
retriever_tool_fn(docs) ==
    IF docs = <<>> THEN [text |-> NoDocumentsFound]
    ELSE [blocks |-> [i \in 1..Min(Len(docs), ToolMaxDocs) |-> Block(i, docs[i])]]

\* the agent calls the retriever tool
RetrieverTool ==
    /\ tlOut = None
    /\ tlOut' = retriever_tool_fn(tlDocs)
    /\ UNCHANGED <<tlDocs, vsVars, ndVars, flVars, ldVars, spVars, agVars>>

InitTool(docLists) ==
    /\ tlDocs \in docLists
    /\ tlOut = None

NextTool == RetrieverTool

Variants == {"baseline", "agentic"}

\* retrieve_docs(state) of the baseline or the agentic RAGNodes
RetrieveDocs(variant, retr) ==
    /\ ndLast.op = "none"
    /\ LET r == IF variant = "baseline" THEN nodes_retrieve_docs(ndIn, retr)
                ELSE react_retrieve_docs(ndIn, retr)
       IN  /\ ndIn' = r.input
           /\ ndLast' = [op |-> "retrieve_docs", variant |-> variant, arg |-> ndIn,
                         env |-> retr, exc |-> r.exc, out |-> r.out]
    /\ UNCHANGED <<ndAgent, vsVars, flVars, ldVars, tlVars, spVars, agVars>>

\* generate_answer(state) of the baseline RAGNodes
GenerateAnswerBaseline(llm) ==
    /\ ndLast.op = "none"
    /\ LET r == nodes_generate_answer(ndIn, llm)
       IN  /\ ndIn' = r.input
           /\ ndLast' = [op |-> "generate_answer", variant |-> "baseline", arg |-> ndIn,
                         env |-> llm, exc |-> r.exc, out |-> r.out]
    /\ UNCHANGED <<ndAgent, vsVars, flVars, ldVars, tlVars, spVars, agVars>>

\* generate_answer(state) of the agentic RAGNodes
GenerateAnswerAgentic(buildOK, res) ==
    /\ ndLast.op = "none"
    /\ LET r == react_generate_answer(ndAgent, ndIn, buildOK, res)
       IN  /\ ndIn' = r.input
           /\ ndAgent' = r.agent
           /\ ndLast' = [op |-> "generate_answer", variant |-> "agentic", arg |-> ndIn,
                         env |-> res, exc |-> r.exc, out |-> r.out]
    /\ UNCHANGED <<vsVars, flVars, ldVars, tlVars, spVars, agVars>>

MaxAgentCalls == 3
\* most generate_answer calls made on one agentic instance

\* generate_answer(state) of one agentic RAGNodes instance, called again and again
GenerateAnswerRepeated(state, buildOK, res) ==
    /\ Len(agHistory) < MaxAgentCalls
    /\ LET r == react_generate_answer(ndAgent, state, buildOK, res)
       IN  /\ ndIn' = r.input
           /\ ndAgent' = r.agent
           /\ ndLast' = [op |-> "generate_answer", variant |-> "agentic", arg |-> state,
                         env |-> res, exc |-> r.exc, out |-> r.out]
           /\ agHistory' = Append(agHistory, [query |-> state.query, before |-> ndAgent,
                                              built |-> r.built, invoked |-> r.invoked,
                                              exc |-> r.exc, out |-> r.out])
    /\ UNCHANGED <<vsVars, flVars, ldVars, tlVars, spVars>>

NextAgent ==
    \E q \in Queries, buildOK \in BOOLEAN, res \in AgentOutcomes :
        GenerateAnswerRepeated(RAGState(q, DefaultRetrievedDocs, DefaultResponse), buildOK, res)

NextNodes ==
    \/ \E variant \in Variants, retr \in RetrieverOutcomes : RetrieveDocs(variant, retr)
    \/ \E llm \in LLMOutcomes : GenerateAnswerBaseline(llm)
    \/ \E buildOK \in BOOLEAN, res \in AgentOutcomes : GenerateAnswerAgentic(buildOK, res)

\* ------------------------------------------------------------------------
\* GraphBuilder
\* ------------------------------------------------------------------------
MaxCalls == 2
\* longest sequence of build() and run(query) calls on one GraphBuilder

START == "__start__"

END == "__end__"

ErrNodePresent == "ValueError: Node retriever already present."

ErrUnknownNode == "ValueError: Found edge to or from an unknown node"

ErrUnboundNode == "TypeError: missing 1 required positional argument: 'state'"

ErrRecursion == "GraphRecursionError"

\* self.nodes = RAGNodes: the class of nodes.py itself, no instance of it
RAGNodesClass == "class RAGNodes"

\* GraphBuilder.__init__
GraphBuilderInit == [nodes |-> RAGNodesClass, graph |-> None]

\* StateGraph(RAGState); exc: the exception a builder call has raised, after
\* which build executes nothing more
StateGraph == [nodes |-> {}, edges |-> {}, exc |-> NoExc]

\* builder.add_node(name, fn): a name already added is refused
add_node(b, name, fn) ==
    IF b.exc # NoExc THEN b
    ELSE IF name \in {n.name : n \in b.nodes} THEN [b EXCEPT !.exc = ErrNodePresent]
    ELSE [b EXCEPT !.nodes = @ \cup {[name |-> name, fn |-> fn]}]

\* builder.add_edge(from, to)
add_edge(b, from, to) ==
    IF b.exc # NoExc THEN b ELSE [b EXCEPT !.edges = @ \cup {<<from, to>>}]

\* builder.set_entry_point(name)
set_entry_point(b, name) == add_edge(b, START, name)

\* builder.compile(): every edge must join known nodes
compile(b) ==
    LET known == {n.name : n \in b.nodes}
    IN  IF b.exc # NoExc THEN b
        ELSE IF \E e \in b.edges : e[1] \notin known \cup {START} \/ e[2] \notin known \cup {END}
        THEN [b EXCEPT !.exc = ErrUnknownNode]
        ELSE b

\* GraphBuilder.build(): [self, exc, ret]
build(self) ==
    LET b1 == add_node(StateGraph, "retriever", "retrieve_docs")
        b2 == add_node(b1, "retriever", "generate_answer")
        b3 == set_entry_point(b2, "retriever")
        b4 == add_edge(b3, "retriever", "responder")
        b5 == add_edge(b4, "responder", END)
        b6 == compile(b5)
        compiled == [nodes |-> b6.nodes, edges |-> b6.edges]
    IN  IF b6.exc # NoExc
        THEN [self |-> self, exc |-> b6.exc, ret |-> None]
        ELSE [self |-> [self EXCEPT !.graph = compiled], exc |-> NoExc, ret |-> compiled]

\* the graph calls a node function of self.nodes with the state
CallNode(nodesOf, fn, state, retr, llm) ==
    IF nodesOf = RAGNodesClass
    THEN [exc |-> ErrUnboundNode, out |-> None, input |-> state]
    ELSE IF fn = "retrieve_docs" THEN nodes_retrieve_docs(state, retr)
    ELSE nodes_generate_answer(state, llm)

\* the node an edge leads to from node cur (END when none does)
NextNode(g, cur) ==
    IF \E e \in g.edges : e[1] = cur
    THEN (CHOOSE e \in g.edges : e[1] = cur)[2]
    ELSE END

\* the graph runs from node cur on: [exc, ret, trace]; trace: the node functions
\* called, in order
RECURSIVE RunFrom(_, _, _, _, _, _, _, _)
RunFrom(g, nodesOf, cur, state, retr, llm, trace, fuel) ==
    IF cur = END THEN [exc |-> NoExc, ret |-> state, trace |-> trace]
    ELSE IF fuel = 0 THEN [exc |-> ErrRecursion, ret |-> None, trace |-> trace]
    ELSE LET fn == (CHOOSE n \in g.nodes : n.name = cur).fn
             r == CallNode(nodesOf, fn, state, retr, llm)
         IN  IF r.exc # NoExc
             THEN [exc |-> r.exc, ret |-> None, trace |-> Append(trace, fn)]
             ELSE RunFrom(g, nodesOf, NextNode(g, cur), r.out, retr, llm,
                          Append(trace, fn), fuel - 1)

\* self.graph.invoke(initial_state)
invoke(g, nodesOf, state, retr, llm) ==
    RunFrom(g, nodesOf, NextNode(g, START), state, retr, llm, <<>>, Cardinality(g.nodes))

\* GraphBuilder.run(query): [self, exc, ret, trace, wired]; retr, llm: what the
\* retriever and the language model do when they are invoked; wired: the call
\* ran build()
run(self, query, retr, llm) ==
    LET b == IF self.graph = None THEN build(self)
             ELSE [self |-> self, exc |-> NoExc, ret |-> self.graph]
        wired == (self.graph = None)
    IN  IF b.exc # NoExc
        THEN [self |-> b.self, exc |-> b.exc, ret |-> None, trace |-> <<>>,
              wired |-> wired]
        ELSE LET r == invoke(b.self.graph, b.self.nodes,
                             RAGState(query, DefaultRetrievedDocs, DefaultResponse),
                             retr, llm)
             IN  [self |-> b.self, exc |-> r.exc, ret |-> r.ret, trace |-> r.trace,
                  wired |-> wired]

GBSelf == [nodes |-> nodes, graph |-> graph]

\* what the retriever of a workflow run can do: nothing found, documents found, or raise
FlowRetrieverOutcomes ==
    {[exc |-> NoExc, docs |-> <<>>], [exc |-> NoExc, docs |-> <<2, 1>>],
     [exc |-> ErrRetriever, docs |-> <<>>]}

Build ==
    /\ Len(flCalls) < MaxCalls
    /\ LET r == build(GBSelf)
       IN  /\ nodes' = r.self.nodes
           /\ graph' = r.self.graph
           /\ flCalls' = Append(flCalls, [op |-> "build", exc |-> r.exc, wired |-> TRUE])
    /\ UNCHANGED <<vsVars, ndVars, ldVars, tlVars, spVars, agVars>>

Run(query, retr, llm) ==
    /\ Len(flCalls) < MaxCalls
    /\ LET r == run(GBSelf, query, retr, llm)
       IN  /\ nodes' = r.self.nodes
           /\ graph' = r.self.graph
           /\ flCalls' = Append(flCalls, [op |-> "run", query |-> query, retr |-> retr,
                                          llm |-> llm, exc |-> r.exc, ret |-> r.ret,
                                          trace |-> r.trace, wired |-> r.wired])
    /\ UNCHANGED <<vsVars, ndVars, ldVars, tlVars, spVars, agVars>>

InitFlow ==
    /\ nodes = GraphBuilderInit.nodes
    /\ graph = GraphBuilderInit.graph
    /\ flCalls = <<>>

NextFlow ==
    \/ Build
    \/ \E query \in Queries, retr \in FlowRetrieverOutcomes, llm \in LLMOutcomes :
          Run(query, retr, llm)

\* ------------------------------------------------------------------------
\* DocumentProcessor: split_documents (RecursiveCharacterTextSplitter)
\* ------------------------------------------------------------------------
\* A text is a sequence of characters; a piece of it is the interval [s, e] of
\* its positions (empty when e < s), so that every chunk keeps its place in the
\* text it was cut from.
MaxTextLen == 4
\* most characters in the documents of one split_documents call

MaxChunkSize == 3
\* largest chunk_size of a DocumentProcessor

Chars == {"a", " ", "\n"}

IsSpace(c) == c \in {" ", "\n"}

\* the splitter's default separators: "\n\n", "\n", " ", ""
Separators == << <<"\n", "\n">>, <<"\n">>, <<" ">>, <<>> >>

Piece(s, e) == [s |-> s, e |-> e]

PieceLen(p) == p.e - p.s + 1

\* where re.split finds the separator in text[from..e]: leftmost matches, none
\* overlapping another
RECURSIVE MatchStarts(_, _, _, _)
MatchStarts(text, sep, from, e) ==
    IF from + Len(sep) - 1 > e THEN <<>>
    ELSE IF SubSeq(text, from, from + Len(sep) - 1) = sep
    THEN <<from>> \o MatchStarts(text, sep, from + Len(sep), e)
    ELSE MatchStarts(text, sep, from + 1, e)

\* _split_text_with_regex(text, separator, keep_separator=True) on text[s..e]:
\* each separator opens the piece that follows it; empty pieces are dropped;
\* the empty separator gives the single characters
SplitWithRegex(text, sep, s, e) ==
    IF sep = <<>>
    THEN [i \in 1..(e - s + 1) |-> Piece(s + i - 1, s + i - 1)]
    ELSE LET m == MatchStarts(text, sep, s, e)
             k == Len(m)
             pieces == [i \in 1..(k + 1) |->
                          Piece(IF i = 1 THEN s ELSE m[i - 1],
                                IF i = k + 1 THEN e ELSE m[i] - 1)]
         IN  SelectSeq(pieces, LAMBDA p : p.e >= p.s)

RECURSIVE StripLeft(_, _, _)
StripLeft(text, s, e) ==
    IF s <= e /\ IsSpace(text[s]) THEN StripLeft(text, s + 1, e) ELSE s

RECURSIVE StripRight(_, _, _)
StripRight(text, s, e) ==
    IF s <= e /\ IsSpace(text[e]) THEN StripRight(text, s, e - 1) ELSE e

\* _join_docs(current_doc, ""): the pieces joined and stripped of whitespace;
\* <<>> where Python returns None (nothing left)
JoinDocs(text, cur) ==
    IF cur = <<>> THEN <<>>
    ELSE LET s == StripLeft(text, cur[1].s, cur[Len(cur)].e)
             e == StripRight(text, s, cur[Len(cur)].e)
         IN  IF e < s THEN <<>> ELSE <<Piece(s, e)>>

\* A loop that drops pieces only to make room for the next one.
RECURSIVE PopFront_for_room_only(_, _, _, _, _)
PopFront_for_room_only(cur, total, len, size, overlap) ==
    IF total + len > size /\ total > 0
    THEN PopFront_for_room_only(Tail(cur), total - PieceLen(cur[1]), len, size, overlap)
    ELSE [cur |-> cur, total |-> total]

\* the while loop of _merge_splits that drops pieces from the front of
\* current_doc; len: the length of the piece about to be added
RECURSIVE PopFront(_, _, _, _, _)
PopFront(cur, total, len, size, overlap) ==
    IF total > overlap \/ (total + len > size /\ total > 0)
    THEN PopFront(Tail(cur), total - PieceLen(cur[1]), len, size, overlap)
    ELSE [cur |-> cur, total |-> total]

\* the for loop of _merge_splits(splits, "") from split i on
RECURSIVE MergeFrom(_, _, _, _, _, _, _, _)
MergeFrom(text, splits, i, docs, cur, total, size, overlap) ==
    IF i > Len(splits) THEN docs \o JoinDocs(text, cur)
    ELSE LET d == splits[i]
             len == PieceLen(d)
         IN  IF total + len > size /\ Len(cur) > 0
             THEN LET p == PopFront(cur, total, len, size, overlap)
                  IN  MergeFrom(text, splits, i + 1, docs \o JoinDocs(text, cur),
                                Append(p.cur, d), p.total + len, size, overlap)
             ELSE MergeFrom(text, splits, i + 1, docs, Append(cur, d), total + len,
                            size, overlap)

\* _merge_splits(splits, "")
MergeSplits(text, splits, size, overlap) ==
    MergeFrom(text, splits, 1, <<>>, <<>>, 0, size, overlap)

\* the position in separators of the one _split_text uses: the first that is
\* empty or occurs in text[s..e]
SeparatorIndex(text, s, e, separators) ==
    CHOOSE i \in 1..Len(separators) :
        /\ separators[i] = <<>> \/ MatchStarts(text, separators[i], s, e) # <<>>
        /\ \A j \in 1..(i - 1) :
              separators[j] # <<>> /\ MatchStarts(text, separators[j], s, e) = <<>>

RECURSIVE SplitText(_, _, _, _, _)
RECURSIVE SplitLoop(_, _, _, _, _, _, _, _)
\* the for loop of _split_text over splits from split i on; good: _good_splits
SplitLoop(text, splits, i, good, final, newSeparators, size, overlap) ==
    LET flushed == IF good = <<>> THEN final
                   ELSE final \o MergeSplits(text, good, size, overlap)
    IN  IF i > Len(splits) THEN flushed
        ELSE IF PieceLen(splits[i]) < size
        THEN SplitLoop(text, splits, i + 1, Append(good, splits[i]), final,
                       newSeparators, size, overlap)
        ELSE IF newSeparators = <<>>
        THEN SplitLoop(text, splits, i + 1, <<>>, Append(flushed, splits[i]),
                       newSeparators, size, overlap)
        ELSE SplitLoop(text, splits, i + 1, <<>>,
                       flushed \o SplitText(text, splits[i], newSeparators, size,
                                            overlap),
                       newSeparators, size, overlap)

\* RecursiveCharacterTextSplitter._split_text(text[piece], separators): the
\* chunks, as pieces of text
SplitText(text, piece, separators, size, overlap) ==
    LET n == SeparatorIndex(text, piece.s, piece.e, separators)
        separator == separators[n]
        newSeparators == IF separator = <<>> THEN <<>>
                         ELSE SubSeq(separators, n + 1, Len(separators))
        splits == SplitWithRegex(text, separator, piece.s, piece.e)
    IN  SplitLoop(text, splits, 1, <<>>, <<>>, newSeparators, size, overlap)

\* DocumentProcessor.split_documents(documents) of an instance made with
\* chunk_size size and chunk_overlap overlap: one chunk Document per piece, the
\* documents in order
RECURSIVE SplitEach(_, _, _, _)
SplitEach(documents, n, size, overlap) ==
    IF n = 0 THEN <<>>
    ELSE LET text == documents[n]
             pieces == SplitText(text, Piece(1, Len(text)), Separators, size, overlap)
         IN  SplitEach(documents, n - 1, size, overlap)
             \o [j \in 1..Len(pieces) |->
                   [doc |-> n, s |-> pieces[j].s, e |-> pieces[j].e,
                    page_content |-> SubSeq(text, pieces[j].s, pieces[j].e)]]

split_documents(documents, size, overlap) ==
    IF documents = <<>> THEN <<>> ELSE SplitEach(documents, Len(documents), size, overlap)

\* the document lists of at most MaxDocs texts with at most MaxTextLen characters
\* in all
Texts == SeqsUpTo(Chars, MaxTextLen)

RECURSIVE TotalLen(_)
TotalLen(documents) ==
    IF documents = <<>> THEN 0 ELSE Len(documents[1]) + TotalLen(Tail(documents))

RECURSIVE TextListsUpTo(_, _)
TextListsUpTo(n, room) ==
    IF n = 0 THEN {<<>>}
    ELSE LET shorter == TextListsUpTo(n - 1, room)
         IN  shorter \cup
             UNION {{Append(l, t) : t \in {u \in Texts : Len(u) <= room - TotalLen(l)}} :
                      l \in {m \in shorter : Len(m) = n - 1}}

TextLists == TextListsUpTo(MaxDocs, MaxTextLen)

\* split_documents(documents)
SplitDocuments ==
    /\ spOut = None
    /\ spOut' = [chunks |-> split_documents(spDocs, spSize, spOverlap)]
    /\ UNCHANGED <<spDocs, spSize, spOverlap, vsVars, ndVars, flVars, ldVars, tlVars, agVars>>

\* DocumentProcessor(chunk_size, chunk_overlap): the splitter refuses an overlap
\* larger than the chunk size
InitProcessor(sizes) ==
    /\ spSize \in sizes
    /\ spOverlap \in 0..spSize

InitSplit(documentLists, sizes) ==
    /\ spDocs \in documentLists
    /\ InitProcessor(sizes)
    /\ spOut = None

NextSplit == SplitDocuments

\* ------------------------------------------------------------------------
\* DocumentProcessor.load_documents
\* ------------------------------------------------------------------------
MaxSources == 3
\* longest sources sequence

MaxPages == 2
\* most documents one loader call returns

ErrEmptySources == "ValueError: Parameter 'sources' must be a non-empty sequence."

ErrEmptyArgument == "ValueError: Parameter must be a non-empty string or Path."

ErrUnsupportedScheme == "ValueError: Unsupported URL scheme"

ErrPathMissing == "ValueError: path does not exist"

ErrNotADirectory == "ValueError: Provided path is not a directory"

ErrNotAFile == "ValueError: Provided path is not a file"

ErrUnsupportedType == "ValueError: Unsupported file type"

ErrLoadFailure == "RuntimeError: Failed to load documents"

\* A source, by what the dispatcher and the loaders can observe of it:
\*   kind  "falsy"       an empty string
\*         "url"         a string starting with http:// or https://
\*         "missing"     a path that does not exist
\*         "dir"         an existing directory
\*         "txt"         an existing regular file with suffix .txt
\*         "txt_upper"   an existing regular file with suffix .TXT
\*         "txt_special" an existing .txt path that is neither directory nor regular file
\*         "other"       an existing file with another suffix
\*   ok    the loader's I/O on it succeeds
\*   pages the number of documents that I/O yields
Source(kind, ok, pages) == [kind |-> kind, ok |-> ok, pages |-> pages]

SourceSet ==
    {Source(k, FALSE, 0) : k \in {"falsy", "missing", "txt_special", "other", "url", "dir",
                                  "txt", "txt_upper"}}
    \cup {Source("url", TRUE, 1), Source("txt", TRUE, 1), Source("txt_upper", TRUE, 1)}
    \cup {Source("dir", TRUE, n) : n \in {0, MaxPages}}

SourceLists == SeqsUpTo(SourceSet, MaxSources)

\* path.suffix of a source that is a path
Suffix(src) ==
    CASE src.kind \in {"txt", "txt_special"} -> ".txt"
      [] src.kind = "txt_upper" -> ".TXT"
      [] src.kind = "other" -> ".md"
      [] OTHER -> ""

\* A lower() that leaves its argument as it is.
LowerKeepsCase(suffix) == suffix

\* suffix.lower()
Lower(suffix) == IF suffix = ".TXT" THEN ".txt" ELSE suffix

\* loader.load() on the source at position i: the documents it yields
LoaderLoad(i, src) ==
    IF src.ok
    THEN [exc |-> NoExc, docs |-> [p \in 1..src.pages |-> [source |-> i, page |-> p]], io |-> TRUE]
    ELSE [exc |-> ErrLoadFailure, docs |-> <<>>, io |-> TRUE]

Rejected(exc) == [exc |-> exc, docs |-> <<>>, io |-> FALSE]

\* A load_from_url that swallows the loader's failure and returns no documents.
load_from_url_swallow(i, src) ==
    IF src.kind = "falsy" THEN Rejected(ErrEmptyArgument)
    ELSE IF src.kind # "url" THEN Rejected(ErrUnsupportedScheme)
    ELSE [LoaderLoad(i, src) EXCEPT !.exc = NoExc]

\* DocumentProcessor.load_from_url: [exc, docs, io]; io: the loader did I/O
load_from_url(i, src) ==
    IF src.kind = "falsy" THEN Rejected(ErrEmptyArgument)
    ELSE IF src.kind # "url" THEN Rejected(ErrUnsupportedScheme)
    ELSE LoaderLoad(i, src)

\* DocumentProcessor.load_from_pdf_dir
load_from_pdf_dir(i, src) ==
    IF src.kind = "falsy" THEN Rejected(ErrEmptyArgument)
    ELSE IF src.kind \in {"missing", "url"} THEN Rejected(ErrPathMissing)
    ELSE IF src.kind # "dir" THEN Rejected(ErrNotADirectory)
    ELSE LoaderLoad(i, src)

\* DocumentProcessor.load_from_txt
load_from_txt(i, src) ==
    IF src.kind = "falsy" THEN Rejected(ErrEmptyArgument)
    ELSE IF src.kind \in {"missing", "url"} THEN Rejected(ErrPathMissing)
    ELSE IF src.kind \in {"dir", "txt_special"} THEN Rejected(ErrNotAFile)
    ELSE IF Lower(Suffix(src)) # ".txt" THEN Rejected(ErrUnsupportedType)
    ELSE LoaderLoad(i, src)

\* the body of the for loop of load_documents for the source at position i
\* (route: the loader method the source was handed to, "skip" or "rejected")
Routed(route, r) == [exc |-> r.exc, docs |-> r.docs, io |-> r.io, route |-> route]

\* A loop body that hands a falsy source on instead of skipping it.
LoopBody_falsy_not_skipped(i, src) ==
    IF src.kind = "url" THEN Routed("load_from_url", load_from_url(i, src))
    ELSE IF src.kind = "missing" THEN Routed("rejected", Rejected(ErrPathMissing))
    ELSE IF src.kind = "dir" THEN Routed("load_from_pdf_dir", load_from_pdf_dir(i, src))
    ELSE IF Lower(Suffix(src)) = ".txt" THEN Routed("load_from_txt", load_from_txt(i, src))
    ELSE Routed("rejected", Rejected(ErrUnsupportedType))

LoopBody(i, src) ==
    IF src.kind = "falsy" THEN Routed("skip", [exc |-> NoExc, docs |-> <<>>, io |-> FALSE])
    ELSE IF src.kind = "url" THEN Routed("load_from_url", load_from_url(i, src))
    ELSE IF src.kind = "missing" THEN Routed("rejected", Rejected(ErrPathMissing))
    ELSE IF src.kind = "dir" THEN Routed("load_from_pdf_dir", load_from_pdf_dir(i, src))
    ELSE IF Lower(Suffix(src)) = ".txt" THEN Routed("load_from_txt", load_from_txt(i, src))
    ELSE Routed("rejected", Rejected(ErrUnsupportedType))

\* load_documents is entered: an empty sources is refused, else docs = []
LoadDocumentsEnter ==
    /\ ldPc = "called"
    /\ IF ldSources = <<>>
       THEN /\ ldPc' = "raised"
            /\ ldExc' = ErrEmptySources
            /\ UNCHANGED <<ldI, ldDocs>>
       ELSE /\ ldPc' = "loop"
            /\ ldI' = 1
            /\ ldDocs' = <<>>
            /\ UNCHANGED ldExc
    /\ UNCHANGED <<ldSources, ldIO, ldRet, ldRoutes, vsVars, ndVars, flVars, tlVars, spVars, agVars>>

\* one iteration of the for loop, on a source of one of the given kinds
LoadIteration(kinds) ==
    /\ ldPc = "loop"
    /\ ldI <= Len(ldSources)
    /\ ldSources[ldI].kind \in kinds
    /\ LET r == LoopBody(ldI, ldSources[ldI])
       IN  /\ ldIO' = IF r.io THEN Append(ldIO, ldI) ELSE ldIO
           /\ ldRoutes' = Append(ldRoutes, r.route)
           /\ IF r.exc # NoExc
              THEN /\ ldPc' = "raised"
                   /\ ldExc' = r.exc
                   /\ UNCHANGED <<ldI, ldDocs>>
              ELSE /\ ldDocs' = ldDocs \o r.docs
                   /\ ldI' = ldI + 1
                   /\ UNCHANGED <<ldPc, ldExc>>
    /\ UNCHANGED <<ldSources, ldRet, vsVars, ndVars, flVars, tlVars, spVars, agVars>>

LoadSkipFalsy == LoadIteration({"falsy"})

LoadUrl == LoadIteration({"url"})

LoadMissingPath == LoadIteration({"missing"})

LoadPdfDir == LoadIteration({"dir"})

LoadTxt == LoadIteration({"txt", "txt_upper", "txt_special"})

LoadUnsupported == LoadIteration({"other"})

\* return docs
LoadDocumentsReturn ==
    /\ ldPc = "loop"
    /\ ldI > Len(ldSources)
    /\ ldPc' = "returned"
    /\ ldRet' = [docs |-> ldDocs]
    /\ UNCHANGED <<ldSources, ldI, ldDocs, ldIO, ldExc, ldRoutes, vsVars, ndVars, flVars, tlVars, spVars, agVars>>

\* the text of a loaded document
PageContent(d) == IF d.page = 1 THEN <<"a", "a", " ", "a">> ELSE <<"a">>

\* process_url after its load_documents call returned: split_documents(docs)
ProcessUrlSplit ==
    /\ ldPc = "returned"
    /\ spOut = None
    /\ LET documents == [n \in 1..Len(ldRet.docs) |-> PageContent(ldRet.docs[n])]
       IN  /\ spDocs' = documents
           /\ spOut' = [chunks |-> split_documents(documents, spSize, spOverlap)]
    /\ UNCHANGED <<spSize, spOverlap, ldVars, vsVars, ndVars, flVars, tlVars, agVars>>

InitLoadCall(sources) ==
    /\ ldSources = sources
    /\ ldPc = "called"
    /\ ldI = 0
    /\ ldDocs = <<>>
    /\ ldIO = <<>>
    /\ ldRet = None
    /\ ldExc = NoExc
    /\ ldRoutes = <<>>

NextLoad ==
    \/ LoadDocumentsEnter
    \/ LoadSkipFalsy
    \/ LoadUrl
    \/ LoadMissingPath
    \/ LoadPdfDir
    \/ LoadTxt
    \/ LoadUnsupported
    \/ LoadDocumentsReturn
    \/ ProcessUrlSplit

\* ------------------------------------------------------------------------
\* Specifications
\* ------------------------------------------------------------------------
InitNodes(states) ==
    /\ ndIn \in states
    /\ ndAgent = None
    /\ ndLast = NoCall

\* a DocumentProcessor with chunk_size MaxChunkSize whose split_documents has not
\* been called
InitOneProcessor == InitSplit({<<>>}, {MaxChunkSize})

InitAgent == agHistory = <<>>

\* the components the specification at hand leaves alone
InitRest ==
    /\ InitVS
    /\ InitFlow
    /\ InitAgent

\* every component in its state after construction
Init ==
    /\ InitRest
    /\ InitNodes({RAGState(1, DefaultRetrievedDocs, DefaultResponse)})
    /\ InitLoadCall(<<>>)
    /\ InitTool({<<>>})
    /\ InitOneProcessor

\* one node function applied to any input state
InitOfNodes ==
    /\ InitRest
    /\ InitNodes(RAGStates)
    /\ InitLoadCall(<<>>)
    /\ InitTool({<<>>})
    /\ InitOneProcessor

\* load_documents called with any sources
InitOfLoad ==
    /\ InitRest
    /\ InitNodes({RAGState(1, DefaultRetrievedDocs, DefaultResponse)})
    /\ \E sources \in SourceLists : InitLoadCall(sources)
    /\ InitTool({<<>>})
    /\ InitOneProcessor

\* split_documents of any processor called on any documents
InitOfSplit ==
    /\ InitRest
    /\ InitNodes({RAGState(1, DefaultRetrievedDocs, DefaultResponse)})
    /\ InitLoadCall(<<>>)
    /\ InitTool({<<>>})
    /\ InitSplit(TextLists, 1..MaxChunkSize)

\* the retriever tool called on any retrieval result
InitOfTool ==
    /\ InitRest
    /\ InitNodes({RAGState(1, DefaultRetrievedDocs, DefaultResponse)})
    /\ InitLoadCall(<<>>)
    /\ InitTool(ToolDocLists)
    /\ InitOneProcessor

Next == NextVS \/ NextNodes \/ NextFlow \/ NextLoad \/ NextTool \/ NextAgent \/ NextSplit

\* one VectorStore instance under any sequence of calls
SpecVS == Init /\ [][NextVS]_vars

SpecNodes == InitOfNodes /\ [][NextNodes]_vars

\* one GraphBuilder instance under any sequence of build and run calls
SpecFlow == Init /\ [][NextFlow]_vars

SpecLoad == InitOfLoad /\ [][NextLoad]_vars

\* one agentic RAGNodes instance under any sequence of generate_answer calls
SpecAgent == Init /\ [][NextAgent]_vars

SpecSplit == InitOfSplit /\ [][NextSplit]_vars

SpecTool == InitOfTool /\ [][NextTool]_vars

Spec == Init /\ [][Next]_vars

\* ------------------------------------------------------------------------
\* Claims: workflow
\* ------------------------------------------------------------------------
RunCalls == {i \in 1..Len(flCalls) : flCalls[i].op = "run"}

\* C1 (as claimed): whenever the retriever and the language model both succeed,
\* run(query) returns the final state: query the input query, retrieved_docs the
\* retriever's result, response the generator's output.
C1_RunReturnsFinalState ==
    \A i \in RunCalls :
        LET c == flCalls[i]
        IN  (c.retr.exc = NoExc /\ c.llm.exc = NoExc) =>
                /\ c.exc = NoExc
                /\ c.ret = RAGState(c.query, c.retr.docs, c.llm.content)

\* C2 (as claimed): in every run the stages are retrieve, then generate, each
\* once and nothing else: the node functions called are a prefix of
\* <<retrieve_docs, generate_answer>>, retrieve_docs is called in every run, and
\* generate_answer in every run whose retriever succeeds.
C2_StagesRetrieveThenGenerate ==
    \A i \in RunCalls :
        LET c == flCalls[i]
        IN  IF c.retr.exc = NoExc
            THEN c.trace = <<"retrieve_docs", "generate_answer">>
            ELSE c.trace = <<"retrieve_docs">>

\* C14 (as claimed): a run whose retriever returns no documents does not raise
\* on account of the empty context: either both stages ran and run returned a
\* state with a response, or run raised the error of the language model call.
C14_EmptyRetrievalStillAnswers ==
    \A i \in RunCalls :
        LET c == flCalls[i]
        IN  (c.retr.exc = NoExc /\ c.retr.docs = <<>>) =>
                \/ /\ c.exc = NoExc
                   /\ c.trace = <<"retrieve_docs", "generate_answer">>
                   /\ c.ret.retrieved_docs = <<>>
                   /\ c.ret.response # DefaultResponse
                \/ /\ c.llm.exc # NoExc
                   /\ c.exc = c.llm.exc

\* C15: no stage runs twice in one run; a run whose retrieve stage raised never
\* called generate_answer and raised the retriever's error; a run whose generate
\* stage raised raised that error and returned no state.
C15_StageFailureAbortsRun ==
    \A i \in RunCalls :
        LET c == flCalls[i]
            calls(fn) == Cardinality({n \in 1..Len(c.trace) : c.trace[n] = fn})
        IN  /\ calls("retrieve_docs") <= 1
            /\ calls("generate_answer") <= 1
            /\ (c.trace = <<"retrieve_docs">> /\ c.exc # NoExc) => c.exc = c.retr.exc
            /\ (c.trace # <<>> /\ c.trace[Len(c.trace)] = "generate_answer"
                  /\ c.exc # NoExc) => c.ret = None

\* a run in which some stage was called
C15_SomeStageRan == \E i \in RunCalls : flCalls[i].trace # <<>>

\* C16 (as claimed): over any sequence of build() and run(query) calls on one
\* GraphBuilder, at most one call wires and compiles the graph.
C16_GraphWiredAtMostOnce ==
    Cardinality({i \in 1..Len(flCalls) : flCalls[i].wired}) <= 1

\* ------------------------------------------------------------------------
\* Claims: node functions
\* ------------------------------------------------------------------------
\* C3 (as claimed): retrieve_docs of either RAGNodes returns a new state with the
\* retriever's result as retrieved_docs and the input's query and response, and
\* leaves the input state as it was.
C3_RetrieveDocsKeepsQueryAndResponse ==
    (ndLast.op = "retrieve_docs" /\ ndLast.env.exc = NoExc) =>
        /\ ndLast.exc = NoExc
        /\ ndLast.out = RAGState(ndLast.arg.query, ndLast.env.docs, ndLast.arg.response)
        /\ ndIn = ndLast.arg

\* C4 (as claimed): generate_answer of either RAGNodes, when the model call
\* returns, returns a new state with the input's query and retrieved_docs and a
\* response taken from the model output, and leaves the input state as it was.
C4_GenerateAnswerKeepsQueryAndDocs ==
    (ndLast.op = "generate_answer" /\ ndLast.env.exc = NoExc
        /\ (ndLast.variant = "agentic" => ndAgent # None)) =>
        /\ ndLast.exc = NoExc
        /\ ndLast.out.query = ndLast.arg.query
        /\ ndLast.out.retrieved_docs = ndLast.arg.retrieved_docs
        /\ ndLast.out.response # DefaultResponse
        /\ ndIn = ndLast.arg

\* C13: whenever the agent invocation of the agentic generate_answer returns
\* without raising, generate_answer returns a state with a non-empty response,
\* and that response is the fixed fallback string when the agent yields no
\* messages, a last message without content or a last message with empty content.
C13_AgenticGenerateFallsBack ==
    (ndLast.op = "generate_answer" /\ ndLast.variant = "agentic"
        /\ ndLast.env.exc = NoExc /\ ndAgent # None) =>
        /\ ndLast.exc = NoExc
        /\ ndLast.out.response # ""
        /\ ndLast.env.messages # "last_with_content" =>
              ndLast.out.response = FallbackResponse

\* C13 witness: a call whose agent returned a last message with empty content
\* came back with the fallback response.
C13_Witness ==
    /\ ndLast.op = "generate_answer" /\ ndLast.variant = "agentic"
    /\ ndLast.env = [exc |-> NoExc, messages |-> "last_empty_content"]
    /\ ndLast.exc = NoExc
    /\ ndLast.out.response = FallbackResponse

\* C18: the agent is not built at construction; a generate_answer call builds
\* it only when the instance has none, and before it invokes anything; at most
\* one build succeeds per instance; after it, no call builds again and every
\* call invokes that one agent, with the tool list and system prompt it was
\* built with.
C18_AgentBuiltLazilyOnce ==
    /\ agHistory = <<>> => ndAgent = None
    /\ Cardinality({i \in 1..Len(agHistory) : agHistory[i].built}) <= 1
    /\ \A i \in 1..Len(agHistory) :
          /\ agHistory[i].built => agHistory[i].before = None
          /\ (agHistory[i].before = None /\ agHistory[i].exc # ErrAgentBuild) =>
                agHistory[i].built
          /\ agHistory[i].invoked # None =>
                /\ agHistory[i].invoked = BuildAgent
                /\ \E j \in 1..i : agHistory[j].built
          /\ \A j \in 1..(i - 1) : agHistory[j].built =>
                /\ ~agHistory[i].built
                /\ agHistory[i].invoked = agHistory[j].invoked
    /\ (\E i \in 1..Len(agHistory) : agHistory[i].built) => ndAgent = BuildAgent

\* C18 witness: three calls, the first of which built the agent, and the other
\* two invoked it without building.
C18_Witness ==
    /\ Len(agHistory) = 3
    /\ agHistory[1].built
    /\ \A i \in 2..3 : ~agHistory[i].built /\ agHistory[i].invoked = agHistory[1].invoked

\* C19: the retriever tool returns the "No documents found." sentinel exactly
\* when retrieval returned no documents; for n > 0 documents it returns
\* min(n, 8) blocks, block i numbered i and made of the document of rank i (its
\* title, else its source, else doc_i; its content), so that no document ranked
\* 9th or later is in the output.
C19_ToolFormatsFirstEight ==
    tlOut # None =>
        /\ tlOut = [text |-> NoDocumentsFound] <=> tlDocs = <<>>
        /\ tlDocs # <<>> =>
              /\ DOMAIN tlOut = {"blocks"}
              /\ Len(tlOut.blocks) = Min(Len(tlDocs), 8)
              /\ \A i \in 1..Len(tlOut.blocks) :
                    /\ tlOut.blocks[i].i = i
                    /\ tlOut.blocks[i].page_content = tlDocs[i].page_content
                    /\ tlOut.blocks[i].title \in
                          {<<tlDocs[i].metadata.title>>, <<tlDocs[i].metadata.source>>,
                           <<"doc_", i>>}
                    /\ tlOut.blocks[i].title # <<"">>

\* C19 witness: nine documents retrieved, the ninth unlike the eight before it,
\* and the tool returned eight blocks.
C19_Witness ==
    /\ tlOut # None
    /\ Len(tlDocs) = 9
    /\ \A i \in 1..8 : tlDocs[i] # tlDocs[9]
    /\ Len(tlOut.blocks) = 8

\* ------------------------------------------------------------------------
\* Claims: split_documents
\* ------------------------------------------------------------------------
\* the characters chunk i and the chunk after it share
OverlapAfter(chunks, i) ==
    IF chunks[i].e >= chunks[i + 1].s THEN chunks[i].e - chunks[i + 1].s + 1 ELSE 0

\* chunk i and chunk i + 1 are of the same document
SameDocAfter(chunks, i) == i < Len(chunks) /\ chunks[i].doc = chunks[i + 1].doc

Loadable(src) == src.kind \in {"url", "dir", "txt", "txt_upper"}

Failing(src) == src.kind \in {"missing", "txt_special", "other"} \/ (Loadable(src) /\ ~src.ok)

\* the error a failing source makes the call raise
ErrorOf(src) ==
    CASE src.kind = "missing" -> ErrPathMissing
      [] src.kind = "txt_special" -> ErrNotAFile
      [] src.kind = "other" -> ErrUnsupportedType
      [] OTHER -> ErrLoadFailure

DocsOf(i, src) ==
    IF Loadable(src) /\ src.ok
    THEN [p \in 1..src.pages |-> [source |-> i, page |-> p]]
    ELSE <<>>

RECURSIVE ConcatDocs(_, _)
ConcatDocs(sources, n) ==
    IF n = 0 THEN <<>> ELSE ConcatDocs(sources, n - 1) \o DocsOf(n, sources[n])

\* the positions up to n of the sources a loader reads, in order
RECURSIVE LoadablePositions(_, _)
LoadablePositions(sources, n) ==
    IF n = 0 THEN <<>>
    ELSE IF Loadable(sources[n]) THEN Append(LoadablePositions(sources, n - 1), n)
    ELSE LoadablePositions(sources, n - 1)

\* C10: load_documents handles its sources one by one in input order and is all
\* or nothing: the loaders have read exactly the loadable sources before the loop
\* position, in order; a call that raised stopped at the first failing source,
\* read nothing after it and handed the caller no list; a call that returned met
\* no failing source and returned the per-source lists concatenated in input order.
C10_LoadDocumentsAllOrNothing ==
    /\ ldPc = "loop" =>
          /\ ldIO = LoadablePositions(ldSources, ldI - 1)
          /\ ldDocs = ConcatDocs(ldSources, ldI - 1)
          /\ \A i \in 1..(ldI - 1) : ~Failing(ldSources[i])
          /\ ldRet = None
    /\ (ldPc = "raised" /\ ldSources # <<>>) =>
          /\ Failing(ldSources[ldI])
          /\ \A i \in 1..(ldI - 1) : ~Failing(ldSources[i])
          /\ ldIO = LoadablePositions(ldSources, ldI)
          /\ ldRet = None
          /\ ldExc = ErrorOf(ldSources[ldI])
    /\ ldPc = "returned" =>
          /\ \A i \in 1..Len(ldSources) : ~Failing(ldSources[i])
          /\ ldIO = LoadablePositions(ldSources, Len(ldSources))
          /\ ldRet = [docs |-> ConcatDocs(ldSources, Len(ldSources))]
          /\ ldExc = NoExc

\* C10 witness: a loader failed in the middle of a batch, after documents of an
\* earlier source were loaded and with a loadable source still to come, and the
\* call raised.
C10_Witness ==
    /\ ldPc = "raised"
    /\ ldExc = ErrLoadFailure
    /\ ldDocs # <<>>
    /\ ldI < Len(ldSources)
    /\ Loadable(ldSources[ldI + 1])
    /\ ldRet = None

\* C11 (as claimed): whenever load_documents raises for a nonexistent path, an
\* unsupported file type or an unsupported URL scheme, no loader has done any I/O
\* during the call, not even for the valid sources before the invalid one.
C11_InvalidInputBeforeAnyIO ==
    (ldPc = "raised" /\ ldExc \in {ErrPathMissing, ErrUnsupportedType, ErrUnsupportedScheme}) =>
        ldIO = <<>>

\* where C12 says a non-empty source goes
ClaimedRoute(src) ==
    CASE src.kind = "url" -> "load_from_url"
      [] src.kind = "missing" -> "rejected"
      [] src.kind = "dir" -> "load_from_pdf_dir"
      [] src.kind \in {"txt", "txt_upper", "txt_special"} -> "load_from_txt"
      [] OTHER -> "rejected"

\* C12: every non-empty source the loop handles goes exactly one way, decided in
\* this order: a URL to load_from_url; a missing path is rejected (path does not
\* exist); a directory to load_from_pdf_dir; a file with suffix .txt in any case
\* to load_from_txt; any other file is rejected (unsupported file type). A source
\* handed to a loader is loaded or raises that loader's error; a rejected one did
\* no I/O.
C12_EachSourceOneRoute ==
    /\ Len(ldRoutes) <= Len(ldSources)
    /\ ldPc = "loop" => Len(ldRoutes) = ldI - 1
    /\ (ldPc = "raised" /\ ldSources # <<>>) => Len(ldRoutes) = ldI
    /\ \A j \in 1..Len(ldRoutes) :
          LET src == ldSources[j]
          IN  IF src.kind = "falsy" THEN ldRoutes[j] = "skip"
              ELSE /\ ldRoutes[j] = ClaimedRoute(src)
                   /\ ldRoutes[j] = "rejected" =>
                         /\ ldPc = "raised" /\ ldI = j
                         /\ ldExc = IF src.kind = "missing" THEN ErrPathMissing
                                    ELSE ErrUnsupportedType
                         /\ \A n \in 1..Len(ldIO) : ldIO[n] # j
                   /\ ldRoutes[j] # "rejected" =>
                         \/ \E n \in 1..Len(ldIO) : ldIO[n] = j
                         \/ (src.kind = "txt_special" /\ ldPc = "raised" /\ ldI = j
                               /\ ldExc = ErrNotAFile)

\* C12 witness: a batch whose sources went all four ways that do not end the
\* call, the last by its upper-case .TXT suffix, and then returned.
C12_Witness ==
    /\ ldPc = "returned"
    /\ ldRoutes = <<"load_from_url", "load_from_pdf_dir", "load_from_txt">>
    /\ ldSources[3].kind = "txt_upper"
    /\ Len(ldRet.docs) = 2 + MaxPages

\* C20: load_documents raises for an empty sources sequence, before any I/O; a
\* falsy entry is skipped: no loader reads it, no returned document comes from it
\* and the call never raises at it, so that a non-empty sequence of falsy entries
\* only returns the empty list; and when load_documents returned the empty list,
\* process_url returns [].
C20_FalsyEntriesSkipped ==
    /\ (ldSources = <<>> /\ ldPc # "called") =>
          /\ ldPc = "raised" /\ ldExc = ErrEmptySources
          /\ ldIO = <<>> /\ ldRet = None
    /\ \A j \in 1..Len(ldSources) :
          ldSources[j].kind = "falsy" =>
              /\ \A n \in 1..Len(ldIO) : ldIO[n] # j
              /\ \A n \in 1..Len(ldDocs) : ldDocs[n].source # j
              /\ j <= Len(ldRoutes) => ldRoutes[j] = "skip"
              /\ ldPc = "raised" => ldI # j
    /\ (ldSources # <<>> /\ \A j \in 1..Len(ldSources) : ldSources[j].kind = "falsy") =>
          /\ ldPc # "raised"
          /\ ldPc = "returned" => ldRet = [docs |-> <<>>]
    /\ (ldPc = "returned" /\ ldRet.docs = <<>> /\ spOut # None) => spOut.chunks = <<>>

\* C20 witness: process_url on three empty strings: load_documents returned the
\* empty list and process_url returned [].
C20_Witness ==
    /\ Len(ldSources) = 3
    /\ \A j \in 1..3 : ldSources[j].kind = "falsy"
    /\ ldPc = "returned"
    /\ ldRet = [docs |-> <<>>]
    /\ spOut = [chunks |-> <<>>]

\* ------------------------------------------------------------------------
\* Claims: VectorStore
\* ------------------------------------------------------------------------
Elements(seq) == {seq[i] : i \in 1..Len(seq)}

\* C6: get_retriever and retrieve fail with the not-initialized error if and only
\* if no create_retriever call on the instance has succeeded so far; failed
\* create_retriever calls do not make the instance initialized.
C6_NotInitializedIffNeverCreated ==
    vsLast.op \in {"get_retriever", "retrieve"} =>
        ((vsLast.exc = ErrNotInitialized) <=> (vsCreated = None))

\* C6 witness: a create_retriever call has failed, none has succeeded, and
\* retrieve then fails with the not-initialized error.
C6_Witness ==
    /\ vsFailed
    /\ vsCreated = None
    /\ vsLast.op = "retrieve"
    /\ vsLast.exc = ErrNotInitialized

\* res is a ranking of documents of store for query q: its entries are entries of
\* store at distinct positions, by increasing distance, ties by insertion order.
IsRanked(res, store, q) ==
    \E pos \in [1..Len(res) -> 1..Len(store)] :
        /\ \A i \in 1..Len(res) : store[pos[i]] = res[i]
        /\ \A i, j \in 1..Len(res) :
              i < j => \/ Distance(q, res[i]) < Distance(q, res[j])
                       \/ (Distance(q, res[i]) = Distance(q, res[j]) /\ pos[i] < pos[j])

C8_DefaultKUnchangedByRetrieve ==
    retriever # None => retriever.k = vsCreated.k

\* C9: create_retriever with an empty documents list raises the empty-documents
\* error without calling the embedding function and leaves vectorstore and
\* retriever exactly as they were.
C9_EmptyCreateLeavesInstance ==
    [][(vsLast'.op = "create_retriever" /\ vsLast'.empty) =>
          /\ vsLast'.exc = ErrEmptyDocuments
          /\ ~vsLast'.embedded
          /\ vectorstore' = vectorstore
          /\ retriever' = retriever]_vars

\* C9 witness: an empty create_retriever was rejected on an instance that holds
\* an index, which is still the one of the last successful create_retriever.
C9_Witness ==
    /\ vsLast.op = "create_retriever"
    /\ vsLast.empty
    /\ vsLast.exc = ErrEmptyDocuments
    /\ retriever # None
    /\ retriever.store = vsCreated.documents
    /\ vectorstore.docs = vsCreated.documents

=============================================================================
